---- MODULE Spec2Model ----
(***************************************************************************)
(* Model of the browser bootstrap of the workbench                         *)
(* (PollingURLCallbackProvider, LocalStorageCredentialsProvider), of the   *)
(* collaborators it is wired to, of the file system provider of the        *)
(* trusted domains (TrustedDomainsContentProvider), of the URL service     *)
(* (BrowserURLService), of getConfirmMessage and of the scroll correction  *)
(* of EditorScrollbar.                                                     *)
(*                                                                         *)
(* Strings are sequences of tokens: a token is an atomic piece of text     *)
(* (one character such as "/" or "&", or a run of unreserved characters    *)
(* such as "vscode" or "vscode-path").  The JavaScript platform is         *)
(* modelled by three collections: the HTTP requests in flight, the FIFO    *)
(* queue of promise continuations that are ready to resume, and the set    *)
(* of armed timers.  A poll sequence has no object state of its own: its   *)
(* requestId and startTime live in the closures held by these entries.     *)
(*                                                                         *)
(* The JSON texts kept in local storage and in the storage service are     *)
(* sequences of typed tokens (punctuators, string literals, white space,   *)
(* comments).  The components do not refer to one another: each has its    *)
(* own specification, in which the others stay as constructed.             *)
(***************************************************************************)
EXTENDS Integers, Sequences, FiniteSets, TLC

VARIABLES
    now,        \* Date.now(), in ms
    ticks,      \* number of clock advances so far
    tickets,    \* one record per create() call, in creation order
    returned,   \* the URI returned by the most recent create() call
    called,     \* the options of the most recent create() call
    requests,   \* HTTP requests in flight (awaited by a poll sequence)
    jobs,       \* continuations of poll sequences whose response is fully read
    timers,     \* armed setTimeout callbacks
    listeners,  \* listeners of the onCallback emitter, in subscription order
    fired,      \* per poll sequence: the payloads it fired on _onCallback
    calls,      \* log of listener invocations
    received,   \* log of non-empty responses, in the order they were read
    polls,      \* per poll sequence: the time its latest request was issued
    ends,       \* per poll sequence: how it ended, once it has
    errors,     \* per poll sequence: the number of its console.error calls
    localStorage,   \* window.localStorage: the items it holds, by key
    _credentials,   \* LocalStorageCredentialsProvider._credentials
    call,           \* the latest call of the credentials provider and its result
    storage,        \* the global scope of the storage service: values by key
    product,        \* productService.linkProtectionTrustedDomains
    file,           \* the latest call of the trusted domains file system and its result
    resourcesToConfirm, \* the resources of the file operation to confirm
    message,        \* the confirmation message built for them, once it is
    scrollPosition, \* viewLayout: the current scroll position
    domNodes,       \* scrollTop and scrollLeft of the DOM nodes listened on
    scrollEvents,   \* the DOM nodes with a 'scroll' event to dispatch
    reveals,        \* number of times the browser has scrolled a DOM node
    handled,        \* number of 'scroll' events handled, and the node of the latest
    provider,       \* BrowserURLService.provider is defined
    subscribed,     \* the service listens on provider.onCallback
    created,        \* log of the provider.create calls: options and URI returned
    serviceCreates, \* number of BrowserURLService.create calls
    serviceReturned, \* the URI the latest BrowserURLService.create returned
    callbacks,      \* log of the events the callback provider fired
    opened          \* log of the open() calls of the service

\* The state of the polling URL callback provider
pollingVars ==
    <<now, ticks, tickets, returned, called, requests, jobs, timers, listeners,
      fired, calls, received, polls, ends, errors>>

\* The state of the credentials provider
credentialsVars ==
    <<localStorage, _credentials, call>>

\* The state of the trusted domains file system
trustedDomainsVars ==
    <<storage, product, file>>

\* The state of the confirmation of a file operation
dialogsVars ==
    <<resourcesToConfirm, message>>

\* The state of the editor scrollbar, of the DOM nodes it listens on and of the view layout
scrollbarVars ==
    <<scrollPosition, domNodes, scrollEvents, reveals, handled>>

\* The state of the URL service and of the callback provider it may be given
urlServiceVars ==
    <<provider, subscribed, created, serviceCreates, serviceReturned, callbacks, opened>>

\* What the polling URL callback provider never touches
beyondPolling ==
    <<credentialsVars, trustedDomainsVars, dialogsVars, scrollbarVars, urlServiceVars>>

\* What the credentials provider never touches
beyondCredentials ==
    <<pollingVars, trustedDomainsVars, dialogsVars, scrollbarVars, urlServiceVars>>

\* What the trusted domains file system never touches
beyondTrustedDomains ==
    <<pollingVars, credentialsVars, dialogsVars, scrollbarVars, urlServiceVars>>

\* What getConfirmMessage and its callers never touch
beyondDialogs ==
    <<pollingVars, credentialsVars, trustedDomainsVars, scrollbarVars, urlServiceVars>>

\* What the editor scrollbar never touches
beyondScrollbar ==
    <<pollingVars, credentialsVars, trustedDomainsVars, dialogsVars, urlServiceVars>>

\* What the URL service never touches
beyondUrlService ==
    <<pollingVars, credentialsVars, trustedDomainsVars, dialogsVars, scrollbarVars>>

vars ==
    <<pollingVars, credentialsVars, trustedDomainsVars, dialogsVars, scrollbarVars,
      urlServiceVars>>

----
\* Bounds of the model

MaxTickets ==
    2

MaxTicks ==
    2

MaxListeners ==
    2

\* Clock advances: half an interval, and half an interval short of the timeout
Delays ==
    {250, 299750}

----
\* Program constants

FETCH_INTERVAL ==
    500

FETCH_TIMEOUT ==
    5 * 60 * 1000

REQUEST_ID ==
    "vscode-requestId"

SCHEME ==
    "vscode-scheme"

AUTHORITY ==
    "vscode-authority"

PATH ==
    "vscode-path"

QUERY ==
    "vscode-query"

FRAGMENT ==
    "vscode-fragment"

\* The components of a UriComponents object that create() looks at
Components ==
    {"scheme", "authority", "path", "query", "fragment"}

----
\* Strings

\* JavaScript truthiness of a string: the empty string is falsy
Truthy(s) ==
    s # <<>>

\* No encoding at all
EncodeNothing(c) ==
    <<c>>

\* encodeURIComponent on one token: reserved characters are percent-encoded,
\* unreserved text is kept
EncodeToken(c) ==
    CASE c = "/" -> <<"%2F">>
      [] c = "&" -> <<"%26">>
      [] c = "=" -> <<"%3D">>
      [] c = "%" -> <<"%25">>
      [] OTHER -> <<c>>

RECURSIVE encodeURIComponent(_)
encodeURIComponent(s) ==
    IF s = <<>> THEN <<>>
    ELSE EncodeToken(Head(s)) \o encodeURIComponent(Tail(s))

\* The Map built by create(): a sequence of <<key, value>> in insertion order.
\* options is a function from the components it defines to their values.
Entry(key, options, c) ==
    IF c \in DOMAIN options /\ Truthy(options[c])
    THEN << <<key, options[c]>> >>
    ELSE <<>>

createQueryValues(requestId, options) ==
    << <<REQUEST_ID, requestId>> >>
        \o Entry(SCHEME, options, "scheme")
        \o Entry(AUTHORITY, options, "authority")
        \o Entry(PATH, options, "path")
        \o Entry(QUERY, options, "query")
        \o Entry(FRAGMENT, options, "fragment")

\* The query string doCreateUri assembles from the map, entry by entry
RECURSIVE BuildQuery(_, _)
BuildQuery(queryValues, index) ==
    IF index > Len(queryValues) THEN <<>>
    ELSE LET key == queryValues[index][1]
             value == queryValues[index][2]
             prefix == IF index = 1 THEN <<>> ELSE <<"&">>
         IN prefix \o <<key, "=">> \o encodeURIComponent(value)
                \o BuildQuery(queryValues, index + 1)

\* window.location.href, parsed
Location ==
    [scheme |-> "https", authority |-> "localhost", path |-> "/", query |-> <<>>]

doCreateUri(path, queryValues) ==
    [Location EXCEPT !.path = path, !.query = BuildQuery(queryValues, 1)]

----
\* JSON bodies.  A body is a sequence of tokens: "{", "}", "," and members.

MemberKey(m) ==
    CASE m = "s" -> "scheme"
      [] m = "a" -> "authority"
      [] m = "p" -> "path"
      [] OTHER -> ""

MemberValue(m) ==
    CASE m = "s" -> <<"vscode">>
      [] m = "a" -> <<"foo">>
      [] m = "p" -> <<"/", "bar">>
      [] OTHER -> <<>>

IsMember(m) ==
    MemberKey(m) # ""

\* content is a JSON object: "{" member ("," member)* "}" or "{" "}"
WellFormed(content) ==
    /\ Len(content) >= 2
    /\ content[1] = "{"
    /\ content[Len(content)] = "}"
    /\ \/ Len(content) = 2
       \/ /\ Len(content) % 2 = 1
          /\ \A i \in 2..(Len(content) - 1) :
                IF i % 2 = 0 THEN IsMember(content[i]) ELSE content[i] = ","

\* JSON.parse of a well-formed body: the object, as a function from its keys
\* to their values (a later member overrides an earlier one with the same key)
JSONParse(content) ==
    LET at == {i \in 2..(Len(content) - 1) : IsMember(content[i])}
        keys == {MemberKey(content[i]) : i \in at}
        last(k) == CHOOSE i \in at :
                      /\ MemberKey(content[i]) = k
                      /\ \A j \in at : MemberKey(content[j]) = k => j <= i
    IN [k \in keys |-> MemberValue(content[last(k)])]

EmptyBody ==
    <<>>

\* {"scheme":"vscode","authority":"foo","path":"/bar"}
ExampleBody ==
    <<"{", "s", ",", "a", ",", "p", "}">>

\* {"scheme":"vscode"   (cut short)
MalformedBody ==
    <<"{", "s">>

\* The response bodies the server sends
Bodies ==
    {EmptyBody, ExampleBody, MalformedBody}

----
\* Reading a URI back: the entries of a query string, split at "&"

RECURSIVE SplitQuery(_)
SplitQuery(q) ==
    IF q = <<>> THEN << <<>> >>
    ELSE LET rest == SplitQuery(Tail(q))
         IN IF Head(q) = "&" THEN << <<>> >> \o rest
            ELSE << <<Head(q)>> \o rest[1] >> \o Tail(rest)

QueryEntries(uri) ==
    IF uri.query = <<>> THEN <<>> ELSE SplitQuery(uri.query)

\* The values the query carries under key (text after "key=")
QueryParams(uri, key) ==
    LET es == QueryEntries(uri)
    IN {SubSeq(es[i], 3, Len(es[i])) :
            i \in {k \in DOMAIN es :
                      Len(es[k]) >= 2 /\ es[k][1] = key /\ es[k][2] = "="}}

----
\* The collaborators of the provider

\* generateUuid(): a token that no earlier call returned; the n-th call
\* returns the token n
generateUuid ==
    <<ToString(Len(tickets) + 1)>>

\* Emitter.fire(event): every listener is called once, in subscription order
Notify(ls, seq, event) ==
    [i \in 1..Len(ls) |-> [listener |-> ls[i], seq |-> seq, payload |-> event]]

\* create() called without options, or with options that define no component
NoOptions ==
    <<>>

\* The values a component of the options may have
Values ==
    {<<>>, <<"/", "bar">>, <<"a", "&", "vscode-path", "=", "b", "%">>}

\* Partial<UriComponents>: any subset of the components, each with a value
AllOptions ==
    UNION {[cs -> Values] : cs \in SUBSET Components}

\* The options create() is called with while polling is exercised
ExampleOptions ==
    [c \in {"scheme", "path"} |->
        IF c = "scheme" THEN <<"vscode">> ELSE <<"/", "bar">>]

PollOptions ==
    {ExampleOptions}

----
\* LocalStorageCredentialsProvider

CREDENTIALS_OPENED_KEY ==
    "credentials.provider"

Services ==
    {"svc1", "svc2"}

Accounts ==
    {"acc1", "acc2"}

Passwords ==
    {"pw1", "pw2"}

\* null and undefined: neither is one of the strings above
Null ==
    "null"

Undefined ==
    "undefined"

\* JSON text is a sequence of tokens: punctuators and string literals
Punct(c) ==
    [t |-> "punctuator", v |-> c]

Str(x) ==
    [t |-> "string", v |-> x]

\* JSON.stringify of one credential: the members in the order they were set
stringifyCredential(c) ==
    <<Punct("{"), Str("service"), Punct(":"), Str(c.service), Punct(","),
      Str("account"), Punct(":"), Str(c.account), Punct(","),
      Str("password"), Punct(":"), Str(c.password), Punct("}")>>

RECURSIVE stringifyElements(_)
stringifyElements(list) ==
    IF list = <<>> THEN <<>>
    ELSE IF Len(list) = 1 THEN stringifyCredential(list[1])
    ELSE stringifyCredential(list[1]) \o <<Punct(",")>> \o stringifyElements(Tail(list))

\* JSON.stringify of the credential list
stringifyCredentials(list) ==
    <<Punct("[")>> \o stringifyElements(list) \o <<Punct("]")>>

\* The length of the text of one credential
CredentialTokens ==
    Len(stringifyCredential([service |-> "", account |-> "", password |-> ""]))

\* The credential the object at position i denotes
CredentialAt(text, i) ==
    [service |-> text[i + 3].v, account |-> text[i + 7].v, password |-> text[i + 11].v]

\* The text from position i on starts with an object of three string members
\* named service, account and password
IsCredentialAt(text, i) ==
    /\ i + CredentialTokens - 1 <= Len(text)
    /\ \A k \in {i + 3, i + 7, i + 11} : text[k].t = "string"
    /\ SubSeq(text, i, i + CredentialTokens - 1) = stringifyCredential(CredentialAt(text, i))

\* The number of elements of a text that is an array of credentials
ElementsOf(text) ==
    IF Len(text) = 2 THEN 0 ELSE (Len(text) - 1) \div (CredentialTokens + 1)

\* The text is a JSON array of credentials
IsCredentialsText(text) ==
    /\ Len(text) >= 2
    /\ text[1] = Punct("[")
    /\ text[Len(text)] = Punct("]")
    /\ Len(text) > 2 => Len(text) = 1 + ElementsOf(text) * (CredentialTokens + 1)
    /\ \A n \in 1..ElementsOf(text) :
          /\ IsCredentialAt(text, 2 + (n - 1) * (CredentialTokens + 1))
          /\ n < ElementsOf(text) => text[1 + n * (CredentialTokens + 1)] = Punct(",")

\* JSON.parse of such a text
parseCredentials(text) ==
    [n \in 1..ElementsOf(text) |-> CredentialAt(text, 2 + (n - 1) * (CredentialTokens + 1))]

\* window.localStorage with no item
NoItems ==
    [k \in {} |-> <<>>]

\* _credentials of an instance that has not read local storage yet
Unread ==
    [defined |-> FALSE, value |-> <<>>]

Read(list) ==
    [defined |-> TRUE, value |-> list]

\* What the credentials getter reads from local storage: a missing or empty item,
\* and a text that is no array, give the empty list
readCredentials ==
    IF /\ CREDENTIALS_OPENED_KEY \in DOMAIN localStorage
       /\ localStorage[CREDENTIALS_OPENED_KEY] # <<>>
       /\ IsCredentialsText(localStorage[CREDENTIALS_OPENED_KEY])
    THEN parseCredentials(localStorage[CREDENTIALS_OPENED_KEY])
    ELSE <<>>

\* The credentials getter: the list in memory, read from local storage on first use
credentials ==
    IF _credentials.defined THEN _credentials.value ELSE readCredentials

\* save with a text that leaves the passwords out
saveWithoutPasswords(list) ==
    [k \in DOMAIN localStorage \cup {CREDENTIALS_OPENED_KEY} |->
        IF k = CREDENTIALS_OPENED_KEY
        THEN stringifyCredentials([i \in DOMAIN list |-> [list[i] EXCEPT !.password = ""]])
        ELSE localStorage[k]]

\* save(): local storage once the list is written to it
save(list) ==
    [k \in DOMAIN localStorage \cup {CREDENTIALS_OPENED_KEY} |->
        IF k = CREDENTIALS_OPENED_KEY THEN stringifyCredentials(list) ELSE localStorage[k]]

\* doGetPassword that takes the first credential of the service
RECURSIVE doGetPasswordOfService(_, _, _)
doGetPasswordOfService(list, service, account) ==
    IF list = <<>> THEN Null
    ELSE IF list[1].service = service THEN list[1].password
    ELSE doGetPasswordOfService(Tail(list), service, account)

\* doGetPassword: the password of the first credential of the service and, if an
\* account is given, of the account
RECURSIVE doGetPassword(_, _, _)
doGetPassword(list, service, account) ==
    IF list = <<>> THEN Null
    ELSE IF /\ list[1].service = service
            /\ (account = Undefined \/ account = list[1].account)
         THEN list[1].password
         ELSE doGetPassword(Tail(list), service, account)

\* deletePassword that removes every credential of the service
deleteService(service, account) ==
    LET kept == SelectSeq(credentials, LAMBDA c : c.service # service)
        found == \E i \in DOMAIN credentials : credentials[i].service = service
    IN [credentials |-> kept, found |-> found,
        localStorage |-> IF found THEN save(kept) ELSE localStorage]

\* deletePassword that saves whether or not it found a credential
deletePasswordThenSave(service, account) ==
    LET kept == SelectSeq(credentials,
                   LAMBDA c : ~(c.service = service /\ c.account = account))
        found == \E i \in DOMAIN credentials :
                    credentials[i].service = service /\ credentials[i].account = account
    IN [credentials |-> kept, found |-> found, localStorage |-> save(kept)]

\* deletePassword(service, account): the filtered list, whether a credential was
\* dropped, and local storage, written only if one was
deletePassword(service, account) ==
    LET kept == SelectSeq(credentials,
                   LAMBDA c : ~(c.service = service /\ c.account = account))
        found == \E i \in DOMAIN credentials :
                    credentials[i].service = service /\ credentials[i].account = account
    IN [credentials |-> kept, found |-> found,
        localStorage |-> IF found THEN save(kept) ELSE localStorage]

\* The latest call and what it returned; found is what deletePassword returned,
\* also when setPassword called it
Call(op, service, account, password, result, found, list) ==
    [op |-> op, service |-> service, account |-> account, password |-> password,
     result |-> result, found |-> found, list |-> list]

NoCall ==
    Call("none", Undefined, Undefined, Undefined, Undefined, FALSE, <<>>)

CredentialsInit ==
    /\ localStorage = NoItems
    /\ _credentials = Unread
    /\ call = NoCall

\* getPassword(service, account)
GetPassword(service, account) ==
    /\ _credentials' = Read(credentials)
    /\ call' = Call("getPassword", service, account, Undefined,
                    doGetPassword(credentials, service, account), FALSE, <<>>)
    /\ UNCHANGED localStorage
    /\ UNCHANGED beyondCredentials

\* setPassword that pushes without the deletePassword call
SetPasswordNoDelete(service, account, password) ==
    LET pushed == Append(credentials,
                     [service |-> service, account |-> account, password |-> password])
    IN /\ _credentials' = Read(pushed)
       /\ localStorage' = save(pushed)
       /\ call' = Call("setPassword", service, account, password, Undefined, FALSE, <<>>)
       /\ UNCHANGED beyondCredentials

\* setPassword(service, account, password): deletePassword runs to its end before
\* the push, having no await in it
SetPassword(service, account, password) ==
    LET pushed == Append(deletePassword(service, account).credentials,
                     [service |-> service, account |-> account, password |-> password])
    IN /\ _credentials' = Read(pushed)
       /\ localStorage' = save(pushed)
       /\ call' = Call("setPassword", service, account, password, Undefined,
                       deletePassword(service, account).found, <<>>)
       /\ UNCHANGED beyondCredentials

\* deletePassword(service, account), called by the user of the provider
DeletePassword(service, account) ==
    LET deleted == deletePassword(service, account)
    IN /\ _credentials' = Read(deleted.credentials)
       /\ localStorage' = deleted.localStorage
       /\ call' = Call("deletePassword", service, account, Undefined, Undefined,
                       deleted.found, <<>>)
       /\ UNCHANGED beyondCredentials

\* findPassword(service)
FindPassword(service) ==
    /\ _credentials' = Read(credentials)
    /\ call' = Call("findPassword", service, Undefined, Undefined,
                    doGetPassword(credentials, service, Undefined), FALSE, <<>>)
    /\ UNCHANGED localStorage
    /\ UNCHANGED beyondCredentials

\* findCredentials(service)
findCredentials(list, service) ==
    LET ofService == SelectSeq(list, LAMBDA c : c.service = service)
    IN [i \in DOMAIN ofService |->
           [account |-> ofService[i].account, password |-> ofService[i].password]]

FindCredentials(service) ==
    /\ _credentials' = Read(credentials)
    /\ call' = Call("findCredentials", service, Undefined, Undefined, Undefined, FALSE,
                    findCredentials(credentials, service))
    /\ UNCHANGED localStorage
    /\ UNCHANGED beyondCredentials

\* The page is loaded again: a new instance of the provider, same local storage
NewInstance ==
    /\ _credentials' = Unread
    /\ call' = Call("new", Undefined, Undefined, Undefined, Undefined, FALSE, <<>>)
    /\ UNCHANGED localStorage
    /\ UNCHANGED beyondCredentials

NextCredentials ==
    \/ \E s \in Services, a \in Accounts : GetPassword(s, a)
    \/ \E s \in Services, a \in Accounts, p \in Passwords : SetPassword(s, a, p)
    \/ \E s \in Services, a \in Accounts : DeletePassword(s, a)
    \/ \E s \in Services : FindPassword(s)
    \/ \E s \in Services : FindCredentials(s)
    \/ NewInstance

----
\* TrustedDomainsContentProvider

\* The longest list of trusted domains written
MaxDomains ==
    2

STORAGE_KEY ==
    "http.linkProtectionTrustedDomains"

Domains ==
    {"a.com", "b.com"}

\* White space and comments of a text, besides its punctuators and strings
Space(w) ==
    [t |-> "space", v |-> w]

Comment(c) ==
    [t |-> "comment", v |-> c]

\* JSON values: arrays of strings, and the empty object
Array(items) ==
    [kind |-> "array", items |-> items]

Object ==
    [kind |-> "object", items |-> <<>>]

DomainLists ==
    UNION {[1..n -> Domains] : n \in 0..MaxDomains}

RECURSIVE Joined(_, _)
Joined(items, separator) ==
    IF items = <<>> THEN <<>>
    ELSE IF Len(items) = 1 THEN <<Str(items[1])>>
    ELSE <<Str(items[1])>> \o separator \o Joined(Tail(items), separator)

\* JSON.stringify(value)
stringify(value) ==
    IF value.kind = "object" THEN <<Punct("{"), Punct("}")>>
    ELSE <<Punct("[")>> \o Joined(value.items, <<Punct(",")>>) \o <<Punct("]")>>

\* JSON.stringify(value, null, 2): one element per line, indented by two spaces
stringifyIndented(value) ==
    IF value.kind = "object" THEN <<Punct("{"), Punct("}")>>
    ELSE IF value.items = <<>> THEN <<Punct("["), Punct("]")>>
    ELSE <<Punct("["), Space("\n  ")>>
            \o Joined(value.items, <<Punct(","), Space("\n  ")>>)
            \o <<Space("\n"), Punct("]")>>

\* The text without its white space
WithoutSpace(text) ==
    SelectSeq(text, LAMBDA x : x.t # "space")

\* The text without its white space and comments
WithoutTrivia(text) ==
    SelectSeq(text, LAMBDA x : x.t \notin {"space", "comment"})

\* The tokens spell an array of strings or the empty object
IsValue(tokens) ==
    \/ tokens = <<Punct("{"), Punct("}")>>
    \/ /\ Len(tokens) >= 2
       /\ tokens[1] = Punct("[")
       /\ tokens[Len(tokens)] = Punct("]")
       /\ Len(tokens) > 2 => Len(tokens) % 2 = 1
       /\ \A i \in 2..(Len(tokens) - 1) :
             IF i % 2 = 0 THEN tokens[i].t = "string" ELSE tokens[i] = Punct(",")

ValueOf(tokens) ==
    IF tokens[1] = Punct("{") THEN Object
    ELSE Array([n \in 1..((Len(tokens) - 1) \div 2) |-> tokens[2 * n].v])

\* JSON.parse(text) does not throw
Parses(text) ==
    IsValue(WithoutSpace(text))

\* JSON.parse(text)
JSONparse(text) ==
    ValueOf(WithoutSpace(text))

\* storageService.get(key, StorageScope.GLOBAL) has a value
Has(key) ==
    key \in DOMAIN storage

\* storageService.store(key, value, StorageScope.GLOBAL)
store(key, value) ==
    [k \in DOMAIN storage \cup {key} |-> IF k = key THEN value ELSE storage[k]]

\* storageService.remove(key, StorageScope.GLOBAL)
remove(key) ==
    [k \in DOMAIN storage \ {key} |-> storage[k]]

\* productService.linkProtectionTrustedDomains is not defined
NoDefaults ==
    [defined |-> FALSE, value |-> <<>>]

Defaults(list) ==
    [defined |-> TRUE, value |-> list]

Products ==
    {NoDefaults, Defaults(<<>>), Defaults(<<"product.com">>)}

\* The storage with the given text under the key of the trusted domains
Holding(text) ==
    [k \in {STORAGE_KEY} |-> text]

\* What the storage may hold when the provider is constructed: nothing, the
\* empty text, a text that is no JSON, a list stored earlier, a JSON object
InitialStorages ==
    {NoItems, Holding(<<>>), Holding(<<Punct("[")>>),
     Holding(stringify(Array(<<"a.com">>))), Holding(stringify(Object))}

\* The texts of a list of domains: as readFile returns it, in one line, and with
\* a comment on top
TextsOf(l) ==
    {stringifyIndented(Array(l)), stringify(Array(l)),
     <<Comment("// trusted"), Space("\n")>> \o stringifyIndented(Array(l))}

\* The contents written to the file: the texts of the lists, the empty content,
\* an unclosed array and an object
Contents ==
    UNION {TextsOf(l) : l \in DomainLists}
       \cup {<<>>, <<Punct("[")>>, stringify(Object)}

\* The latest call of the file system provider, what it returned, and the content
\* of the latest writeFile
File(op, content, written) ==
    [op |-> op, content |-> content, written |-> written]

NotWritten ==
    [given |-> FALSE, content |-> <<>>]

Written(content) ==
    [given |-> TRUE, content |-> content]

TrustedDomainsAtRest ==
    /\ storage = NoItems
    /\ product = NoDefaults
    /\ file = File("none", <<>>, NotWritten)

TrustedDomainsInit ==
    /\ storage \in InitialStorages
    /\ product \in Products
    /\ file = File("none", <<>>, NotWritten)

\* readFile that takes a stored empty list for no stored list
readFileDefaultsForEmptyList ==
    LET defaults == Array(IF product.defined THEN product.value ELSE <<>>)
        trustedDomains ==
            IF /\ Has(STORAGE_KEY)
               /\ storage[STORAGE_KEY] # <<>>
               /\ Parses(storage[STORAGE_KEY])
               /\ JSONparse(storage[STORAGE_KEY]).items # <<>>
            THEN JSONparse(storage[STORAGE_KEY])
            ELSE defaults
    IN stringifyIndented(trustedDomains)

\* readFile that starts from the empty list instead of the product's list
readFileWithoutDefaults ==
    LET defaults == Array(<<>>)
        trustedDomains ==
            IF /\ Has(STORAGE_KEY)
               /\ storage[STORAGE_KEY] # <<>>
               /\ Parses(storage[STORAGE_KEY])
            THEN JSONparse(storage[STORAGE_KEY])
            ELSE defaults
    IN stringifyIndented(trustedDomains)

\* readFile: the text of the stored value if there is a non-empty one that
\* parses, else of a copy of the product's list, or of the empty list
readFile ==
    LET defaults == Array(IF product.defined THEN product.value ELSE <<>>)
        trustedDomains ==
            IF /\ Has(STORAGE_KEY)
               /\ storage[STORAGE_KEY] # <<>>
               /\ Parses(storage[STORAGE_KEY])
            THEN JSONparse(storage[STORAGE_KEY])
            ELSE defaults
    IN stringifyIndented(trustedDomains)

\* parse(content) of vs/base/common/json gives a value
Tolerated(content) ==
    IsValue(WithoutTrivia(content))

\* parse(content): white space and comments are skipped
parse(content) ==
    ValueOf(WithoutTrivia(content))

\* writeFile: the storage after it.  A content that spells no value leaves the
\* empty list, or makes parse return undefined, which is stored as a removal
writeFile(content) ==
    IF Tolerated(content)
    THEN {store(STORAGE_KEY, stringify(parse(content)))}
    ELSE {store(STORAGE_KEY, stringify(Array(<<>>))), remove(STORAGE_KEY)}

\* readFile(resource)
ReadFile ==
    /\ file' = File("readFile", readFile, file.written)
    /\ UNCHANGED <<storage, product>>
    /\ UNCHANGED beyondTrustedDomains

\* writeFile(resource, content)
WriteFile(content) ==
    /\ storage' \in writeFile(content)
    /\ file' = File("writeFile", <<>>, Written(content))
    /\ UNCHANGED product
    /\ UNCHANGED beyondTrustedDomains

Watch ==
    /\ file' = File("watch", <<>>, file.written)
    /\ UNCHANGED <<storage, product>>
    /\ UNCHANGED beyondTrustedDomains

Stat ==
    /\ file' = File("stat", <<>>, file.written)
    /\ UNCHANGED <<storage, product>>
    /\ UNCHANGED beyondTrustedDomains

Mkdir ==
    /\ file' = File("mkdir", <<>>, file.written)
    /\ UNCHANGED <<storage, product>>
    /\ UNCHANGED beyondTrustedDomains

Readdir ==
    /\ file' = File("readdir", <<>>, file.written)
    /\ UNCHANGED <<storage, product>>
    /\ UNCHANGED beyondTrustedDomains

Delete ==
    /\ file' = File("delete", <<>>, file.written)
    /\ UNCHANGED <<storage, product>>
    /\ UNCHANGED beyondTrustedDomains

Rename ==
    /\ file' = File("rename", <<>>, file.written)
    /\ UNCHANGED <<storage, product>>
    /\ UNCHANGED beyondTrustedDomains

NextTrustedDomains ==
    \/ ReadFile
    \/ \E content \in Contents : WriteFile(content)
    \/ Watch
    \/ Stat
    \/ Mkdir
    \/ Readdir
    \/ Delete
    \/ Rename

----
\* getConfirmMessage

MAX_CONFIRM_FILES ==
    10

\* The most resources a file operation is confirmed for
MaxResources ==
    12

\* Resources, by the segments of their paths
Uris ==
    {<<"folder", "a.txt">>, <<"b.txt">>}

\* The start lines: a text is a sequence of tokens, "\n" being the line break
Starts ==
    {<<"Delete", " ", "these files?">>, <<>>}

\* basename(resource): the last segment of its path
basename(r) ==
    <<r[Len(r)]>>

\* localize(key, text, ...args): the text with {0} replaced
moreFile ==
    <<"...1 additional file not shown">>

moreFiles(count) ==
    <<"...", ToString(count), " additional files not shown">>

\* array.join('\n')
RECURSIVE join(_)
join(lines) ==
    IF lines = <<>> THEN <<>>
    ELSE IF Len(lines) = 1 THEN lines[1]
    ELSE lines[1] \o <<"\n">> \o join(Tail(lines))

\* array.slice(0, count)
slice(array, count) ==
    SubSeq(array, 1, IF Len(array) < count THEN Len(array) ELSE count)

\* getConfirmMessage that reports the files not shown from the limit on
getConfirmMessageFromLimit(start, resources) ==
    LET shown == slice(resources, MAX_CONFIRM_FILES)
        more == IF Len(resources) >= MAX_CONFIRM_FILES
                THEN IF Len(resources) - MAX_CONFIRM_FILES = 1
                     THEN <<moreFile>>
                     ELSE <<moreFiles(Len(resources) - MAX_CONFIRM_FILES)>>
                ELSE <<>>
    IN join(<<start, <<>>>> \o [i \in DOMAIN shown |-> basename(shown[i])]
               \o more \o << <<>> >>)

\* getConfirmMessage(start, resourcesToConfirm)
getConfirmMessage(start, resources) ==
    LET shown == slice(resources, MAX_CONFIRM_FILES)
        more == IF Len(resources) > MAX_CONFIRM_FILES
                THEN IF Len(resources) - MAX_CONFIRM_FILES = 1
                     THEN <<moreFile>>
                     ELSE <<moreFiles(Len(resources) - MAX_CONFIRM_FILES)>>
                ELSE <<>>
    IN join(<<start, <<>>>> \o [i \in DOMAIN shown |-> basename(shown[i])]
               \o more \o << <<>> >>)

NoMessage ==
    [given |-> FALSE, start |-> <<>>, text |-> <<>>]

DialogsInit ==
    /\ resourcesToConfirm = <<>>
    /\ message = NoMessage

\* One more resource is part of the file operation; no message is built yet
Select(r) ==
    /\ Len(resourcesToConfirm) < MaxResources
    /\ resourcesToConfirm' = Append(resourcesToConfirm, r)
    /\ message' = NoMessage
    /\ UNCHANGED beyondDialogs

\* The caller builds the message to confirm the operation with
Confirm(start) ==
    /\ message' = [given |-> TRUE, start |-> start,
                   text |-> getConfirmMessage(start, resourcesToConfirm)]
    /\ UNCHANGED resourcesToConfirm
    /\ UNCHANGED beyondDialogs

NextDialogs ==
    \/ \E r \in Uris : Select(r)
    \/ \E start \in Starts : Confirm(start)

----
\* EditorScrollbar

\* The most times the browser scrolls a DOM node
MaxReveals ==
    2

\* The DOM nodes the constructor adds a 'scroll' listener to
DomNodes ==
    {"viewDomNode", "linesContent", "overflowGuardDomNode", "scrollbarDomNode"}

\* The offsets the browser may scroll a node to
ScrollTops ==
    {0, 3}

ScrollLefts ==
    {0, 5}

\* The arguments the listener of each node passes to onBrowserDesperateReveal
lookAtScrollTop(node) ==
    TRUE

\* Every listener passing true for lookAtScrollLeft
lookAtScrollLeftEverywhere(node) ==
    TRUE

lookAtScrollLeft(node) ==
    node = "viewDomNode"

\* viewLayout.setScrollPositionNow(newScrollPosition): the coordinates given
\* replace the current ones
setScrollPositionNow(newScrollPosition) ==
    [c \in {"scrollTop", "scrollLeft"} |->
        IF c \in DOMAIN newScrollPosition THEN newScrollPosition[c] ELSE scrollPosition[c]]

\* The new scroll position onBrowserDesperateReveal builds
newScrollPositionOf(node) ==
    LET tops == IF lookAtScrollTop(node) /\ domNodes[node].scrollTop # 0
                THEN {"scrollTop"} ELSE {}
        lefts == IF lookAtScrollLeft(node) /\ domNodes[node].scrollLeft # 0
                 THEN {"scrollLeft"} ELSE {}
    IN [c \in tops \cup lefts |-> scrollPosition[c] + domNodes[node][c]]

\* The offsets of the node once onBrowserDesperateReveal has reset them
resetOf(node) ==
    [c \in {"scrollTop", "scrollLeft"} |->
        IF c \in DOMAIN newScrollPositionOf(node) THEN 0 ELSE domNodes[node][c]]

ScrollbarInit ==
    /\ scrollPosition = [scrollTop |-> 0, scrollLeft |-> 0]
    /\ domNodes = [node \in DomNodes |-> [scrollTop |-> 0, scrollLeft |-> 0]]
    /\ scrollEvents = {}
    /\ reveals = 0
    /\ handled = [count |-> 0, node |-> "none"]

\* The browser reveals a focused element by scrolling a node, and will dispatch
\* a 'scroll' event on it
BrowserScrolls(node, top, left) ==
    /\ reveals < MaxReveals
    /\ [scrollTop |-> top, scrollLeft |-> left] # domNodes[node]
    /\ domNodes' = [domNodes EXCEPT ![node] = [scrollTop |-> top, scrollLeft |-> left]]
    /\ scrollEvents' = scrollEvents \cup {node}
    /\ reveals' = reveals + 1
    /\ UNCHANGED <<scrollPosition, handled>>
    /\ UNCHANGED beyondScrollbar

\* The 'scroll' listener of the node: onBrowserDesperateReveal.  Resetting an
\* offset scrolls the node, for which the browser dispatches a 'scroll' event too
OnScroll(node) ==
    /\ node \in scrollEvents
    /\ scrollPosition' = setScrollPositionNow(newScrollPositionOf(node))
    /\ domNodes' = [domNodes EXCEPT ![node] = resetOf(node)]
    /\ scrollEvents' = IF resetOf(node) # domNodes[node]
                       THEN scrollEvents
                       ELSE scrollEvents \ {node}
    /\ handled' = [count |-> handled.count + 1, node |-> node]
    /\ UNCHANGED reveals
    /\ UNCHANGED beyondScrollbar

NextScrollbar ==
    \/ \E node \in DomNodes, top \in ScrollTops, left \in ScrollLefts :
          BrowserScrolls(node, top, left)
    \/ \E node \in DomNodes : OnScroll(node)

----
\* BrowserURLService

\* The most events a callback provider fires
MaxCallbacks ==
    2

\* The URI components a callback provider fires its event with
Payloads ==
    {[k \in {"scheme", "authority", "path"} |->
         CASE k = "scheme" -> <<"vscode">>
           [] k = "authority" -> <<"foo">>
           [] k = "path" -> <<"/", "bar">>],
     [k \in {"scheme", "path"} |-> IF k = "scheme" THEN <<"vscode">> ELSE <<"/", "baz">>]}

\* URI.revive(components): the URI with these components, the others empty
revive(components) ==
    [k \in {"scheme", "authority", "path", "query", "fragment"} |->
        IF k \in DOMAIN components THEN components[k] ELSE <<>>]

\* URI.parse(text) of a text that is a scheme, ":", "//" and maybe an authority
\* and a path
URIparse(text) ==
    [scheme |-> text[1],
     authority |-> IF Len(text) >= 5 THEN text[5] ELSE "",
     path |-> IF Len(text) >= 6 THEN text[6] ELSE "",
     query |-> <<>>]

\* 'unsupported://'
UNSUPPORTED ==
    <<"unsupported", ":", "/", "/">>

\* provider.create(options) of the provider given: the n-th ticket's URI
providerCreate(options, n) ==
    doCreateUri("/callback", createQueryValues(<<ToString(n)>>, options))

\* No create call has returned yet
NothingReturned ==
    [scheme |-> "", authority |-> "", path |-> "", query |-> <<>>]

UrlServiceAtRest ==
    /\ provider = FALSE
    /\ subscribed = FALSE
    /\ created = <<>>
    /\ serviceCreates = 0
    /\ serviceReturned = NothingReturned
    /\ callbacks = <<>>
    /\ opened = <<>>

\* The constructor, with or without options.urlCallbackProvider: registerListeners
\* subscribes only if there is a provider
UrlServiceInit ==
    /\ provider \in BOOLEAN
    /\ subscribed = provider
    /\ created = <<>>
    /\ serviceCreates = 0
    /\ serviceReturned = NothingReturned
    /\ callbacks = <<>>
    /\ opened = <<>>

\* create that does not test whether there is a provider
UrlCreateUnchecked(options) ==
    /\ serviceCreates < MaxTickets
    /\ serviceCreates' = serviceCreates + 1
    /\ created' = Append(created,
                     [options |-> options,
                      uri |-> providerCreate(options, Len(created) + 1)])
    /\ serviceReturned' = providerCreate(options, Len(created) + 1)
    /\ UNCHANGED <<provider, subscribed, callbacks, opened>>
    /\ UNCHANGED beyondUrlService

\* BrowserURLService.create(options)
UrlCreate(options) ==
    /\ serviceCreates < MaxTickets
    /\ serviceCreates' = serviceCreates + 1
    /\ IF provider
       THEN /\ created' = Append(created,
                             [options |-> options,
                              uri |-> providerCreate(options, Len(created) + 1)])
            /\ serviceReturned' = providerCreate(options, Len(created) + 1)
       ELSE /\ serviceReturned' = URIparse(UNSUPPORTED)
            /\ UNCHANGED created
    /\ UNCHANGED <<provider, subscribed, callbacks, opened>>
    /\ UNCHANGED beyondUrlService

\* A callback provider fires onCallback: the listener of the service, if it has
\* one, opens the revived URI
ProviderFires(payload) ==
    /\ Len(callbacks) < MaxCallbacks
    /\ callbacks' = Append(callbacks, payload)
    /\ opened' = IF subscribed THEN Append(opened, revive(payload)) ELSE opened
    /\ UNCHANGED <<provider, subscribed, created, serviceCreates, serviceReturned>>
    /\ UNCHANGED beyondUrlService

\* dispose(): what the service registered is disposed, its listener with it
DisposeService ==
    /\ subscribed
    /\ subscribed' = FALSE
    /\ UNCHANGED <<provider, created, serviceCreates, serviceReturned, callbacks, opened>>
    /\ UNCHANGED beyondUrlService

NextUrlService ==
    \/ \E o \in PollOptions \cup {NoOptions} : UrlCreate(o)
    \/ \E payload \in Payloads : ProviderFires(payload)
    \/ DisposeService

----
\* PollingURLCallbackProvider

\* polls[seq] before the first request of the sequence
NoPoll ==
    0 - 1

NoUri ==
    [scheme |-> "", authority |-> "", path |-> "", query |-> <<>>]

PollingInit ==
    /\ now = 0
    /\ ticks = 0
    /\ tickets = <<>>
    /\ returned = NoUri
    /\ called = NoOptions
    /\ requests = {}
    /\ jobs = <<>>
    /\ timers = {}
    /\ listeners = <<>>
    /\ fired = [seq \in 1..MaxTickets |-> <<>>]
    /\ calls = <<>>
    /\ received = <<>>
    /\ polls = [seq \in 1..MaxTickets |-> NoPoll]
    /\ ends = [seq \in 1..MaxTickets |-> <<>>]
    /\ errors = [seq \in 1..MaxTickets |-> 0]

\* The state after construction, the other components being at rest
Init ==
    PollingInit /\ CredentialsInit /\ TrustedDomainsAtRest /\ DialogsInit /\ ScrollbarInit
       /\ UrlServiceAtRest

\* The first part of periodicFetchCallback, up to its first await: the request
\* is sent and the poll sequence waits for the response
periodicFetchCallback(seq, requestId, startTime) ==
    /\ requests' = requests \cup
          {[seq |-> seq, requestId |-> requestId, startTime |-> startTime,
            at |-> now,
            url |-> doCreateUri("/fetch-callback", << <<REQUEST_ID, requestId>> >>)]}
    /\ polls' = [polls EXCEPT ![seq] = now]

\* create with a requestId that is generated once and used for every ticket
CreateSameId(options) ==
    /\ Len(tickets) < MaxTickets
    /\ jobs = <<>>
    /\ LET requestId == <<ToString(1)>>
           queryValues == createQueryValues(requestId, options)
           seq == Len(tickets) + 1
       IN /\ periodicFetchCallback(seq, requestId, now)
          /\ returned' = doCreateUri("/callback", queryValues)
          /\ called' = options
          /\ tickets' = Append(tickets, [requestId |-> requestId, startTime |-> now])
    /\ UNCHANGED <<now, ticks, jobs, timers, listeners, fired, calls, received,
                   ends, errors>>
    /\ UNCHANGED beyondPolling

\* create that arms a timer for the first cycle instead of starting it
CreateDelayed(options) ==
    /\ Len(tickets) < MaxTickets
    /\ jobs = <<>>
    /\ LET requestId == generateUuid
           queryValues == createQueryValues(requestId, options)
           seq == Len(tickets) + 1
       IN /\ timers' = timers \cup
                {[seq |-> seq, requestId |-> requestId, startTime |-> now,
                  due |-> now + FETCH_INTERVAL]}
          /\ returned' = doCreateUri("/callback", queryValues)
          /\ called' = options
          /\ tickets' = Append(tickets, [requestId |-> requestId, startTime |-> now])
    /\ UNCHANGED <<now, ticks, jobs, requests, polls, listeners, fired, calls, received,
                   ends, errors>>
    /\ UNCHANGED beyondPolling

\* create(options).  create, the timer callbacks and the subscriptions are tasks
\* of the event loop: one starts only when no continuation is left to resume.
Create(options) ==
    /\ Len(tickets) < MaxTickets
    /\ jobs = <<>>
    /\ LET requestId == generateUuid
           queryValues == createQueryValues(requestId, options)
           seq == Len(tickets) + 1
       IN /\ periodicFetchCallback(seq, requestId, now)
          /\ returned' = doCreateUri("/callback", queryValues)
          /\ called' = options
          /\ tickets' = Append(tickets, [requestId |-> requestId, startTime |-> now])
    /\ UNCHANGED <<now, ticks, jobs, timers, listeners, fired, calls, received,
                   ends, errors>>
    /\ UNCHANGED beyondPolling

\* The server answers request r and the response stream is read to its end:
\* the awaiting poll sequence becomes ready to resume with the content
Respond(r, content) ==
    /\ r \in requests
    /\ requests' = requests \ {r}
    /\ jobs' = Append(jobs, [seq |-> r.seq, requestId |-> r.requestId,
                             startTime |-> r.startTime, content |-> content])
    /\ received' = IF content # <<>>
                   THEN Append(received, [seq |-> r.seq, content |-> content])
                   ELSE received
    /\ UNCHANGED <<now, ticks, tickets, returned, called, timers, listeners, fired, calls,
                   polls, ends, errors>>
    /\ UNCHANGED beyondPolling

\* A failed request handled like an empty response: the next cycle is scheduled
RequestFailsRetry(r) ==
    /\ r \in requests
    /\ requests' = requests \ {r}
    /\ timers' = timers \cup 
          {[seq |-> r.seq, requestId |-> r.requestId, startTime |-> r.startTime,
            due |-> now + FETCH_INTERVAL]}
    /\ UNCHANGED <<now, ticks, tickets, returned, called, jobs, listeners, fired,
                   calls, received, polls, errors, ends>>
    /\ UNCHANGED beyondPolling

\* The request (or reading its stream) fails: the await throws, the promise
\* of the poll sequence is rejected and nobody handles it
RequestFails(r) ==
    /\ r \in requests
    /\ requests' = requests \ {r}
    /\ ends' = [ends EXCEPT ![r.seq] = Append(@, "REJECTED")]
    /\ UNCHANGED <<now, ticks, tickets, returned, called, jobs, timers, listeners, fired,
                   calls, received, polls, errors>>
    /\ UNCHANGED beyondPolling

\* The continuation that became ready last resumes first
NextJobIndexLast(q) ==
    Len(q)

\* Continuations resume in the order they became ready
NextJobIndex(q) ==
    1

\* Deliver without its return: the sequence goes on to schedule the next cycle
DeliverAndContinue(j) ==
    /\ IF WellFormed(j.content)
       THEN /\ fired' = [fired EXCEPT ![j.seq] = Append(@, JSONParse(j.content))]
            /\ calls' = calls \o Notify(listeners, j.seq, JSONParse(j.content))
            /\ ends' = [ends EXCEPT ![j.seq] = Append(@, "DELIVERED")]
            /\ UNCHANGED errors
       ELSE /\ errors' = [errors EXCEPT ![j.seq] = @ + 1]
            /\ ends' = [ends EXCEPT ![j.seq] = Append(@, "FAILED")]
            /\ UNCHANGED <<fired, calls>>
    /\ timers' = timers \cup
          {[seq |-> j.seq, requestId |-> j.requestId, startTime |-> j.startTime,
            due |-> now + FETCH_INTERVAL]}

\* Deliver with the fire outside the try block as well: the event fires twice
DeliverTwice(j) ==
    /\ IF WellFormed(j.content)
       THEN /\ fired' = [fired EXCEPT ![j.seq] =
                            Append(Append(@, JSONParse(j.content)), JSONParse(j.content))]
            /\ calls' = calls \o Notify(listeners, j.seq, JSONParse(j.content))
                               \o Notify(listeners, j.seq, JSONParse(j.content))
            /\ ends' = [ends EXCEPT ![j.seq] = Append(@, "DELIVERED")]
            /\ UNCHANGED errors
       ELSE /\ errors' = [errors EXCEPT ![j.seq] = @ + 1]
            /\ ends' = [ends EXCEPT ![j.seq] = Append(@, "FAILED")]
            /\ UNCHANGED <<fired, calls>>
    /\ UNCHANGED timers

\* Deliver that treats a parse error as an empty response and polls again
DeliverRetryOnError(j) ==
    IF WellFormed(j.content)
    THEN /\ fired' = [fired EXCEPT ![j.seq] = Append(@, JSONParse(j.content))]
         /\ calls' = calls \o Notify(listeners, j.seq, JSONParse(j.content))
         /\ ends' = [ends EXCEPT ![j.seq] = Append(@, "DELIVERED")]
         /\ UNCHANGED <<errors, timers>>
    ELSE /\ errors' = [errors EXCEPT ![j.seq] = @ + 1]
         /\ timers' = timers \cup
               {[seq |-> j.seq, requestId |-> j.requestId, startTime |-> j.startTime,
                 due |-> now + FETCH_INTERVAL]}
         /\ UNCHANGED <<fired, calls, ends>>

\* Deliver that stops the polling through a timer handle all sequences share
DeliverClearsTimers(j) ==
    /\ IF WellFormed(j.content)
       THEN /\ fired' = [fired EXCEPT ![j.seq] = Append(@, JSONParse(j.content))]
            /\ calls' = calls \o Notify(listeners, j.seq, JSONParse(j.content))
            /\ ends' = [ends EXCEPT ![j.seq] = Append(@, "DELIVERED")]
            /\ UNCHANGED errors
       ELSE /\ errors' = [errors EXCEPT ![j.seq] = @ + 1]
            /\ ends' = [ends EXCEPT ![j.seq] = Append(@, "FAILED")]
            /\ UNCHANGED <<fired, calls>>
    /\ timers' = {}

\* content.byteLength > 0: fire the parsed content, or log the parse error; done
Deliver(j) ==
    /\ IF WellFormed(j.content)
       THEN /\ fired' = [fired EXCEPT ![j.seq] = Append(@, JSONParse(j.content))]
            /\ calls' = calls \o Notify(listeners, j.seq, JSONParse(j.content))
            /\ ends' = [ends EXCEPT ![j.seq] = Append(@, "DELIVERED")]
            /\ UNCHANGED errors
       ELSE /\ errors' = [errors EXCEPT ![j.seq] = @ + 1]
            /\ ends' = [ends EXCEPT ![j.seq] = Append(@, "FAILED")]
            /\ UNCHANGED <<fired, calls>>
    /\ UNCHANGED timers

\* The next cycle armed with no delay
NextCycleAtOnce(j) ==
    [seq |-> j.seq, requestId |-> j.requestId, startTime |-> j.startTime,
     due |-> now]

\* The timer of the next cycle
NextCycle(j) ==
    [seq |-> j.seq, requestId |-> j.requestId, startTime |-> j.startTime,
     due |-> now + FETCH_INTERVAL]

\* Continue without the timeout test
ContinueForever(j) ==
    /\ timers' = timers \cup {NextCycle(j)}
    /\ UNCHANGED <<ends, fired, calls, errors>>

\* Continue with the timeout test off by one: 300000 ms still counts as in time
ContinueAtTimeout(j) ==
    /\ IF now - j.startTime <= FETCH_TIMEOUT
       THEN /\ timers' = timers \cup {NextCycle(j)}
            /\ UNCHANGED ends
       ELSE /\ ends' = [ends EXCEPT ![j.seq] = Append(@, "EXPIRED")]
            /\ UNCHANGED timers
    /\ UNCHANGED <<fired, calls, errors>>

\* Continue fetching unless we hit the timeout
Continue(j) ==
    /\ IF now - j.startTime < FETCH_TIMEOUT
       THEN /\ timers' = timers \cup {NextCycle(j)}
            /\ UNCHANGED ends
       ELSE /\ ends' = [ends EXCEPT ![j.seq] = Append(@, "EXPIRED")]
            /\ UNCHANGED timers
    /\ UNCHANGED <<fired, calls, errors>>

\* The rest of periodicFetchCallback, after the response was read
Resume ==
    /\ jobs # <<>>
    /\ LET i == NextJobIndex(jobs)
           j == jobs[i]
       IN /\ jobs' = SubSeq(jobs, 1, i - 1) \o SubSeq(jobs, i + 1, Len(jobs))
          /\ IF j.content # <<>> THEN Deliver(j) ELSE Continue(j)
    /\ UNCHANGED <<now, ticks, tickets, returned, called, requests, listeners, received, polls>>
    /\ UNCHANGED beyondPolling

\* The next cycle armed with setInterval: the timer stays armed when it fires
TimerFiresRepeating(t) ==
    /\ t \in timers
    /\ jobs = <<>>
    /\ now >= t.due
    /\ timers' = (timers \ {t}) \cup {[t EXCEPT !.due = now + FETCH_INTERVAL]}
    /\ periodicFetchCallback(t.seq, t.requestId, t.startTime)
    /\ UNCHANGED <<now, ticks, tickets, returned, called, jobs, listeners, fired, calls,
                   received, ends, errors>>
    /\ UNCHANGED beyondPolling

\* A timer armed by setTimeout fires, not before its delay has passed, and
\* starts the next cycle
TimerFires(t) ==
    /\ t \in timers
    /\ jobs = <<>>
    /\ now >= t.due
    /\ timers' = timers \ {t}
    /\ periodicFetchCallback(t.seq, t.requestId, t.startTime)
    /\ UNCHANGED <<now, ticks, tickets, returned, called, jobs, listeners, fired, calls,
                   received, ends, errors>>
    /\ UNCHANGED beyondPolling

\* onCallback(listener)
Subscribe(l) ==
    /\ jobs = <<>>
    /\ \A i \in DOMAIN listeners : listeners[i] # l
    /\ listeners' = Append(listeners, l)
    /\ UNCHANGED <<now, ticks, tickets, returned, called, requests, jobs, timers, fired,
                   calls, received, polls, ends, errors>>
    /\ UNCHANGED beyondPolling

\* Disposing the subscription removes the listener
Unsubscribe(l) ==
    /\ jobs = <<>>
    /\ \E i \in DOMAIN listeners : listeners[i] = l
    /\ listeners' = SelectSeq(listeners, LAMBDA x : x # l)
    /\ UNCHANGED <<now, ticks, tickets, returned, called, requests, jobs, timers, fired,
                   calls, received, polls, ends, errors>>
    /\ UNCHANGED beyondPolling

\* Time passes.  A ready continuation resumes before the clock moves on: letting
\* time pass first is the same as the response having arrived that much later.
Tick(d) ==
    /\ ticks < MaxTicks
    /\ jobs = <<>>
    /\ now' = now + d
    /\ ticks' = ticks + 1
    /\ UNCHANGED <<tickets, returned, called, requests, jobs, timers, listeners,
                   fired, calls, received, polls, ends, errors>>
    /\ UNCHANGED beyondPolling

\* The poll sequences over time
Next ==
    \/ \E o \in PollOptions : Create(o)
    \/ \E r \in requests, content \in Bodies : Respond(r, content)
    \/ \E r \in requests : RequestFails(r)
    \/ Resume
    \/ \E t \in timers : TimerFires(t)
    \/ \E d \in Delays : Tick(d)

Spec ==
    Init /\ [][Next]_vars

\* The poll sequences and the subscribers of onCallback, within one instant
NextEvents ==
    \/ \E o \in PollOptions : Create(o)
    \/ \E r \in requests, content \in Bodies : Respond(r, content)
    \/ \E r \in requests : RequestFails(r)
    \/ Resume
    \/ \E l \in 1..MaxListeners : Subscribe(l)
    \/ \E l \in 1..MaxListeners : Unsubscribe(l)

SpecEvents ==
    Init /\ [][NextEvents]_vars

\* create() on every kind of options
NextUri ==
    \E o \in AllOptions \cup {ExampleOptions} : Create(o)

SpecUri ==
    Init /\ [][NextUri]_vars

\* The calls of the credentials provider, from empty local storage
SpecCredentials ==
    Init /\ [][NextCredentials]_vars

\* The state after construction, whatever the storage and the product hold
InitTrustedDomains ==
    PollingInit /\ CredentialsInit /\ TrustedDomainsInit /\ DialogsInit /\ ScrollbarInit
       /\ UrlServiceAtRest

\* The calls of the file system provider of the trusted domains
SpecTrustedDomains ==
    InitTrustedDomains /\ [][NextTrustedDomains]_vars

\* The confirmation messages of file operations on more and more resources
SpecDialogs ==
    Init /\ [][NextDialogs]_vars

\* The browser scrolling the DOM nodes of the editor, and the scrollbar's listeners
SpecScrollbar ==
    Init /\ [][NextScrollbar]_vars

\* The state after construction, with or without a callback provider
InitUrlService ==
    /\ PollingInit /\ CredentialsInit /\ TrustedDomainsAtRest /\ DialogsInit
    /\ ScrollbarInit /\ UrlServiceInit

\* The calls of the URL service and the events of a callback provider
SpecUrlService ==
    InitUrlService /\ [][NextUrlService]_vars

\* Contents of local storage that hold no credential list: no item, an empty
\* item, texts JSON.parse throws on, and texts of values that are no array
UnusableTexts ==
    {<<>>,
     <<Punct("[")>>,
     <<Punct("{"), Str("service")>>,
     <<Punct("{"), Punct("}")>>,
     <<Str("pw1")>>,
     stringifyCredential([service |-> "svc1", account |-> "acc1", password |-> "pw1"])}

UnusableStorages ==
    {NoItems} \cup {[k \in {CREDENTIALS_OPENED_KEY} |-> text] : text \in UnusableTexts}

\* A new provider over local storage that holds no credential list
InitUnusableStorage ==
    /\ PollingInit
    /\ localStorage \in UnusableStorages /\ _credentials = Unread /\ call = NoCall
    /\ TrustedDomainsAtRest /\ DialogsInit /\ ScrollbarInit /\ UrlServiceAtRest

\* The calls of the credentials provider from such a storage
SpecUnusableStorage ==
    InitUnusableStorage /\ [][NextCredentials]_vars

----
\* What is left of a poll sequence

Created ==
    1..Len(tickets)

RequestsOf(seq) ==
    {r \in requests : r.seq = seq}

JobsOf(seq) ==
    {i \in DOMAIN jobs : jobs[i].seq = seq}

TimersOf(seq) ==
    {t \in timers : t.seq = seq}

\* Nothing of the sequence is left: no request, no continuation, no timer
Over(seq) ==
    RequestsOf(seq) = {} /\ JobsOf(seq) = {} /\ TimersOf(seq) = {}

\* The non-empty bodies the sequence has read and already handled
Handled(seq) ==
    {received[i].content : i \in {k \in DOMAIN received : received[k].seq = seq}}

Elapsed(seq, t) ==
    t - tickets[seq].startTime

----
\* C1 as stated: a poll sequence ends only DELIVERED or EXPIRED.
C1_OnlyDeliveredOrExpired ==
    \A seq \in Created :
        Over(seq) => ends[seq] \in {<<"DELIVERED">>, <<"EXPIRED">>}

\* C1 (amended): a poll sequence ends at most once, and when it has, nothing of it
\* is left.  It ends in exactly one of four ways: DELIVERED (the event was fired),
\* EXPIRED (an empty response handled after the timeout), FAILED (a non-empty body
\* that is not JSON, logged) or REJECTED (the request failed); never two of them.
C1_EndsOnce ==
    \A seq \in 1..MaxTickets :
        /\ Len(ends[seq]) <= 1
        /\ \A i \in DOMAIN ends[seq] :
              ends[seq][i] \in {"DELIVERED", "EXPIRED", "FAILED", "REJECTED"}
        /\ seq \in Created => (Over(seq) <=> Len(ends[seq]) = 1)
        /\ seq \notin Created => ends[seq] = <<>>
        /\ (ends[seq] = <<"DELIVERED">>) <=> (fired[seq] # <<>>)
        /\ (ends[seq] = <<"FAILED">>) <=> (errors[seq] > 0)
        /\ ends[seq] = <<"EXPIRED">> => Elapsed(seq, now) >= FETCH_TIMEOUT

\* One sequence was delivered, another expired
C1_Witness ==
    \E a \in Created, b \in Created :
        ends[a] = <<"DELIVERED">> /\ ends[b] = <<"EXPIRED">>

\* The object the example body describes
ExamplePayload ==
    [k \in {"scheme", "authority", "path"} |->
        CASE k = "scheme" -> <<"vscode">>
          [] k = "authority" -> <<"foo">>
          [] k = "path" -> <<"/", "bar">>]

\* C2: once a poll sequence has handled a non-empty, well-formed JSON body, the
\* event has fired exactly once for it, with the parsed payload, and nothing of the
\* sequence is left: no request in flight, no timer armed.
C2_DeliveredOnce ==
    \A seq \in Created :
        /\ Len(fired[seq]) <= 1
        /\ fired[seq] # <<>> => Over(seq)
        /\ (ExampleBody \in Handled(seq) /\ JobsOf(seq) = {}) =>
              fired[seq] = <<ExamplePayload>> /\ Over(seq)

\* A sequence was delivered in a later cycle than its first
C2_Witness ==
    \E seq \in Created :
        /\ fired[seq] = <<ExamplePayload>>
        /\ polls[seq] > tickets[seq].startTime

\* C3 as stated: no request of a ticket is issued at a time t with
\* t - startTime >= 300000.
C3_NoRequestAfterTimeout ==
    \A seq \in Created : Elapsed(seq, polls[seq]) < FETCH_TIMEOUT

\* C3 (amended): no next cycle is scheduled once 300000 ms have elapsed since the
\* ticket was created, and after a request issued at or after that time no further
\* request of the ticket is issued.
C3_NoCycleScheduledAfterTimeout ==
    [][/\ \A t \in timers' \ timers : now - t.startTime < FETCH_TIMEOUT
       /\ \A seq \in Created :
             Elapsed(seq, polls[seq]) >= FETCH_TIMEOUT =>
                /\ polls'[seq] = polls[seq]
                /\ RequestsOf(seq)' \subseteq RequestsOf(seq)]_vars

\* A ticket issued a request after the timeout and then expired
C3_Witness ==
    \E seq \in Created :
        /\ Elapsed(seq, polls[seq]) >= FETCH_TIMEOUT
        /\ ends[seq] = <<"EXPIRED">>

\* C4: after a poll sequence has handled a non-empty body that is not valid JSON,
\* the event has not fired for it, the error was logged once, the sequence has
\* ended (not by a rejection) and no further poll is scheduled for it.
C4_MalformedEndsSequence ==
    \A seq \in Created :
        (MalformedBody \in Handled(seq) /\ JobsOf(seq) = {}) =>
            /\ fired[seq] = <<>>
            /\ errors[seq] = 1
            /\ ends[seq] = <<"FAILED">>
            /\ Over(seq)

\* A sequence handled a malformed body after an empty one
C4_Witness ==
    \E seq \in Created :
        /\ MalformedBody \in Handled(seq)
        /\ JobsOf(seq) = {}
        /\ polls[seq] > tickets[seq].startTime

\* All there is of one ticket
View(seq) ==
    <<tickets[seq], RequestsOf(seq), {jobs[i] : i \in JobsOf(seq)}, TimersOf(seq),
      polls[seq], ends[seq], fired[seq], errors[seq]>>

\* C5: a step in which ticket a ends (delivered, expired, failed or rejected)
\* changes nothing of any other ticket b: its pending request or timer, its
\* requestId and its startTime stay as they are.
C5_Independent ==
    [][\A a \in Created, b \in Created :
          (a # b /\ ends'[a] # ends[a]) => View(b)' = View(b)]_vars

\* Ticket a was delivered while ticket b waits on its timer
C5_Witness ==
    \E a \in Created, b \in Created :
        /\ a # b
        /\ ends[a] = <<"DELIVERED">>
        /\ TimersOf(b) # {}
        /\ ends[b] = <<>>

\* C6: a request of a ticket is issued at least 500 ms after the ticket's
\* previous request.
C6_AtLeastIntervalApart ==
    [][\A r \in requests' \ requests :
          polls[r.seq] # NoPoll => r.at - polls[r.seq] >= FETCH_INTERVAL]_vars

\* A second request was issued exactly one interval after the first
C6_Witness ==
    \E seq \in Created :
        /\ polls[seq] = tickets[seq].startTime + FETCH_INTERVAL
        /\ RequestsOf(seq) # {}

----
\* The redirect URI

\* The query key of a component
KeyOf(c) ==
    CASE c = "scheme" -> SCHEME
      [] c = "authority" -> AUTHORITY
      [] c = "path" -> PATH
      [] c = "query" -> QUERY
      [] c = "fragment" -> FRAGMENT

\* URL-decoding, as the redirect target does it
DecodeToken(c) ==
    CASE c = "%2F" -> "/"
      [] c = "%26" -> "&"
      [] c = "%3D" -> "="
      [] c = "%25" -> "%"
      [] OTHER -> c

decodeURIComponent(s) ==
    [i \in 1..Len(s) |-> DecodeToken(s[i])]

\* The values of the entries of the query whose key is key, one per entry
EntriesOf(uri, key) ==
    LET es == QueryEntries(uri)
        at == {k \in DOMAIN es : Len(es[k]) >= 2 /\ es[k][1] = key /\ es[k][2] = "="}
    IN [n |-> Cardinality(at), values |-> {SubSeq(es[k], 3, Len(es[k])) : k \in at}]

\* The query holds exactly one entry key=<encoding of value>
OneEntry(uri, key, value) ==
    LET e == EntriesOf(uri, key)
    IN /\ e.n = 1
       /\ \A v \in e.values :
             /\ decodeURIComponent(v) = value
             /\ \A i \in DOMAIN v : v[i] \notin {"/", "&", "=", "%"}

NoEntry(uri, key) ==
    EntriesOf(uri, key).n = 0

LastRequestId ==
    tickets[Len(tickets)].requestId

\* C7 as stated: the URI has path /callback, one vscode-requestId entry, exactly
\* one encoded entry for each component present in the options and none for a
\* component that is absent from them.
C7_EntryForEveryPresentComponent ==
    returned # NoUri =>
        /\ returned.path = "/callback"
        /\ OneEntry(returned, REQUEST_ID, LastRequestId)
        /\ \A c \in Components :
              IF c \in DOMAIN called
              THEN OneEntry(returned, KeyOf(c), called[c])
              ELSE NoEntry(returned, KeyOf(c))

\* C7 (amended): the URI has path /callback, one vscode-requestId entry, exactly
\* one encoded entry for each component that is present in the options with a
\* non-empty value, and no other entry: none for a component that is absent or
\* empty.  The options {scheme: "vscode", path: "/bar"} give
\* vscode-requestId=<id>&vscode-scheme=vscode&vscode-path=%2Fbar.
C7_EntryForEveryNonEmptyComponent ==
    returned # NoUri =>
        /\ returned.path = "/callback"
        /\ OneEntry(returned, REQUEST_ID, LastRequestId)
        /\ \A c \in Components :
              IF c \in DOMAIN called /\ called[c] # <<>>
              THEN OneEntry(returned, KeyOf(c), called[c])
              ELSE NoEntry(returned, KeyOf(c))
        /\ Len(QueryEntries(returned)) =
              1 + Cardinality({c \in DOMAIN called : called[c] # <<>>})
        /\ called = ExampleOptions =>
              returned.query =
                 <<REQUEST_ID, "=">> \o LastRequestId
                    \o <<"&", SCHEME, "=", "vscode", "&", PATH, "=", "%2F", "bar">>

\* create was called with the example options
C7_Witness ==
    returned # NoUri /\ called = ExampleOptions

\* What is pending, of all sequences
Pending ==
    requests \cup timers \cup {jobs[i] : i \in DOMAIN jobs}

\* C8: no two tickets have the same requestId, the URI create() returns carries
\* the requestId of its ticket, every poll sequence polls for the requestId of its
\* ticket and no two pending sequences of different tickets share a requestId.
C8_FreshRequestIds ==
    /\ \A a \in Created, b \in Created :
          a # b => tickets[a].requestId # tickets[b].requestId
    /\ returned # NoUri => QueryParams(returned, REQUEST_ID) = {LastRequestId}
    /\ \A x \in Pending : x.requestId = tickets[x.seq].requestId
    /\ \A x \in Pending, y \in Pending : x.seq # y.seq => x.requestId # y.requestId

\* Two tickets are polling at the same time
C8_Witness ==
    \E x \in requests, y \in requests : x.seq # y.seq

\* C9: a delivery calls every listener subscribed at that moment exactly once,
\* in subscription order, with the delivered payload, in the very step in which
\* the delivering poll sequence ends; no listener is called otherwise.
C9_NotifiedOnceInOrder ==
    [][/\ \A i \in DOMAIN listeners, k \in DOMAIN listeners :
             i # k => listeners[i] # listeners[k]
       /\ \A seq \in 1..MaxTickets :
             fired'[seq] # fired[seq] =>
                /\ fired'[seq] = Append(fired[seq], fired'[seq][Len(fired'[seq])])
                /\ Len(calls') = Len(calls) + Len(listeners)
                /\ SubSeq(calls', 1, Len(calls)) = calls
                /\ \A i \in DOMAIN listeners :
                      calls'[Len(calls) + i] =
                         [listener |-> listeners[i], seq |-> seq,
                          payload |-> fired'[seq][Len(fired'[seq])]]
                /\ ends[seq] = <<>>
                /\ ends'[seq] = <<"DELIVERED">>
                /\ Over(seq)'
       /\ fired' = fired => calls' = calls]_vars

\* A delivery called two listeners, the one that subscribed first being listener 2
C9_Witness ==
    /\ Len(calls) >= 2
    /\ calls[1].seq = calls[2].seq
    /\ calls[1].listener = 2
    /\ calls[2].listener = 1

\* The place of a sequence among the non-empty responses read
ReceivedAt(seq) ==
    {i \in DOMAIN received : received[i].seq = seq}

\* C10: the payloads reach a listener in the order in which their poll sequences
\* read their non-empty responses, whatever the order the tickets were created in.
C10_DeliveryInReceiptOrder ==
    \A i \in DOMAIN calls, k \in DOMAIN calls :
        (i < k /\ calls[i].listener = calls[k].listener) =>
            \A x \in ReceivedAt(calls[i].seq), y \in ReceivedAt(calls[k].seq) : x < y

\* A listener got the payload of the second ticket before that of the first
C10_Witness ==
    \E i \in DOMAIN calls, k \in DOMAIN calls :
        /\ i < k
        /\ calls[i].listener = calls[k].listener
        /\ calls[i].seq = 2
        /\ calls[k].seq = 1

----
\* C11: the step of create() that makes a ticket also sends the ticket's first
\* GET /fetch-callback, with the requestId the returned URI carries and at the
\* ticket's startTime; no timer is armed for it and nothing was awaited: the
\* request is still in flight when create() has returned its /callback URI.
C11_FirstRequestInCreate ==
    [][Len(tickets') > Len(tickets) =>
          LET seq == Len(tickets')
          IN /\ Len(tickets') = Len(tickets) + 1
             /\ returned'.path = "/callback"
             /\ QueryParams(returned', REQUEST_ID) = {tickets'[seq].requestId}
             /\ tickets'[seq].startTime = now
             /\ \E r \in requests' :
                   /\ {x \in requests' : x.seq = seq} = {r}
                   /\ r \notin requests
                   /\ r.at = tickets'[seq].startTime
                   /\ r.url.path = "/fetch-callback"
                   /\ QueryParams(r.url, REQUEST_ID) = QueryParams(returned', REQUEST_ID)
             /\ \A t \in timers' : t.seq # seq
             /\ \A i \in DOMAIN jobs' : jobs'[i].seq # seq
             /\ ends'[seq] = <<>>
             /\ now' = now]_vars

\* create() has just returned the URI of the second ticket while the first
\* request of that ticket is in flight, some time after the program started
C11_Witness ==
    /\ Len(tickets) = 2
    /\ now > 0
    /\ returned # NoUri
    /\ QueryParams(returned, REQUEST_ID) = {tickets[2].requestId}
    /\ \E r \in requests :
          /\ r.seq = 2
          /\ r.at = tickets[2].startTime
          /\ r.at = now
          /\ QueryParams(r.url, REQUEST_ID) = {tickets[2].requestId}

----
\* C13: when a poll sequence resumes with an empty response, nothing is fired or
\* logged and no request is sent.  If 300000 ms or more have passed since the
\* ticket's startTime the sequence ends there and nothing of it is left; otherwise
\* exactly one timer is armed, due 500 ms later, with the ticket's requestId and
\* startTime, and the ticket stays pending.  A ticket that has read no non-empty
\* response has fired no event.
C13_EmptyResponseDecision ==
    [][/\ (jobs # <<>> /\ jobs' = Tail(jobs) /\ Head(jobs).content = <<>>) =>
             \A seq \in Created :
                seq = Head(jobs).seq =>
                   /\ fired' = fired
                   /\ calls' = calls
                   /\ errors' = errors
                   /\ requests' = requests
                   /\ polls' = polls
                   /\ ends[seq] = <<>>
                   /\ IF now - tickets[seq].startTime >= FETCH_TIMEOUT
                      THEN /\ timers' = timers
                           /\ Over(seq)'
                           /\ ends'[seq] = <<"EXPIRED">>
                      ELSE /\ TimersOf(seq) = {}
                           /\ timers' = timers \cup
                                 {[seq |-> seq, requestId |-> tickets[seq].requestId,
                                   startTime |-> tickets[seq].startTime,
                                   due |-> now + FETCH_INTERVAL]}
                           /\ Cardinality(TimersOf(seq)') = 1
                           /\ ends' = ends
       /\ \A seq \in 1..MaxTickets : Handled(seq)' = {} => fired'[seq] = <<>>]_vars

\* One ticket got an empty response exactly 300000 ms after its startTime and
\* ended, while a younger ticket waits for the cycle its empty response scheduled
C13_Witness ==
    \E a \in Created, b \in Created :
        /\ ends[a] = <<"EXPIRED">>
        /\ Elapsed(a, now) = FETCH_TIMEOUT
        /\ fired[a] = <<>>
        /\ ends[b] = <<>>
        /\ \E t \in TimersOf(b) : t.due = now + FETCH_INTERVAL

\* C14: as long as a ticket is pending, exactly one thing of its poll sequence is
\* outstanding: one request (in flight, or read and waiting to resume) or one
\* timer, never two requests, two timers, or a request and a timer; a ticket that
\* has ended has none.
C14_OneActivity ==
    \A seq \in Created :
        LET activities == Cardinality(RequestsOf(seq)) + Cardinality(JobsOf(seq))
                             + Cardinality(TimersOf(seq))
        IN /\ activities <= 1
           /\ ends[seq] = <<>> => activities = 1
           /\ ends[seq] # <<>> => activities = 0

\* One ticket is in a later cycle with its request in flight, the other waits on
\* its timer
C14_Witness ==
    \E a \in Created, b \in Created :
        /\ \E r \in RequestsOf(a) : r.at > tickets[a].startTime
        /\ TimersOf(b) # {}

\* C15: a step in which a request fails (it is gone and nothing resumes from it)
\* ends the poll sequence there: no event, no call of a listener, no timer, no
\* further request; nothing of any other ticket changes, and nothing of the
\* failed sequence ever comes back.
C15_FailureEndsSequence ==
    [][/\ (requests' # requests /\ requests' \subseteq requests /\ jobs' = jobs) =>
             \A r \in requests \ requests', seq \in Created :
                seq = r.seq =>
                   /\ fired' = fired
                   /\ calls' = calls
                   /\ errors' = errors
                   /\ timers' = timers
                   /\ polls' = polls
                   /\ Over(seq)'
                   /\ ends'[seq] = <<"REJECTED">>
                   /\ \A b \in Created : b # seq => View(b)' = View(b)
       /\ \A seq \in Created :
             ends[seq] = <<"REJECTED">> =>
                Over(seq)' /\ ends'[seq] = ends[seq] /\ polls'[seq] = polls[seq]]_vars

\* The request of the first ticket failed well before the timeout, in a later
\* cycle than the first, and the other ticket is still polling
C15_Witness ==
    \E a \in Created, b \in Created :
        /\ ends[a] = <<"REJECTED">>
        /\ Elapsed(a, now) < FETCH_TIMEOUT
        /\ polls[a] > tickets[a].startTime
        /\ Over(a)
        /\ ends[b] = <<>>

----
\* The passwords the list holds for a service and an account
PasswordsOf(list, service, account) ==
    {list[i].password :
        i \in {k \in DOMAIN list : list[k].service = service /\ list[k].account = account}}

\* C12: getPassword(s, a) returns the password the list holds for (s, a), or null
\* if it holds none; after setPassword(s, a, p) the list holds exactly p for (s, a);
\* and a call changes what the list holds for a pair only if it is a setPassword
\* or a deletePassword on that pair.
C12_GetReturnsLastSet ==
    [][/\ call'.op = "getPassword" =>
             IF PasswordsOf(credentials', call'.service, call'.account) = {}
             THEN call'.result = Null
             ELSE PasswordsOf(credentials', call'.service, call'.account) = {call'.result}
       /\ call'.op = "setPassword" =>
             PasswordsOf(credentials', call'.service, call'.account) = {call'.password}
       /\ \A s \in Services, a \in Accounts :
             \/ /\ call'.op \in {"setPassword", "deletePassword"}
                /\ call'.service = s
                /\ call'.account = a
             \/ PasswordsOf(credentials', s, a) = PasswordsOf(credentials, s, a)]_vars

\* getPassword returned the password of a credential that is not the first of
\* its service in the list
C12_Witness ==
    /\ call.op = "getPassword"
    /\ call.result \in Passwords
    /\ \E i \in DOMAIN credentials :
          /\ i > 1
          /\ credentials[i].service = call.service
          /\ credentials[i].account = call.account
          /\ credentials[i].password = call.result
          /\ credentials[1].service = call.service
          /\ credentials[1].password # call.result

\* No two credentials of the list have the same service and account
NoDuplicates(list) ==
    Cardinality({<<c.service, c.account>> : c \in {list[i] : i \in DOMAIN list}}) = Len(list)

\* C16: the list, in memory and as a new instance would read it, never holds two
\* credentials with the same service and account; setPassword on a pair the list
\* holds leaves the length of the list as it is, on any other pair it adds one.
C16_OneCredentialPerPair ==
    [][/\ NoDuplicates(credentials)
       /\ NoDuplicates(credentials')
       /\ NoDuplicates(readCredentials')
       /\ call'.op = "setPassword" =>
             Len(credentials') =
                IF PasswordsOf(credentials, call'.service, call'.account) # {}
                THEN Len(credentials)
                ELSE Len(credentials) + 1]_vars

\* setPassword replaced the password of a pair, the list holding other pairs too
C16_Witness ==
    /\ call.op = "setPassword"
    /\ call.found
    /\ Len(credentials) >= 2
    /\ PasswordsOf(credentials, call.service, call.account) = {call.password}

\* C17: deletePassword(s, a) returns true exactly when the list held a credential
\* of (s, a); after it the list holds none and getPassword(s, a) would return null;
\* the other credentials are the same, in the same order; and when it returns
\* false the list is as it was and local storage is not written.
C17_DeleteRemovesOnlyThePair ==
    [][call'.op = "deletePassword" =>
          LET before == credentials
              after == credentials'
              others(c) == ~(c.service = call'.service /\ c.account = call'.account)
          IN /\ call'.found <=> PasswordsOf(before, call'.service, call'.account) # {}
             /\ PasswordsOf(after, call'.service, call'.account) = {}
             /\ doGetPassword(after, call'.service, call'.account) = Null
             /\ after = SelectSeq(before, others)
             /\ ~call'.found => after = before /\ localStorage' = localStorage]_vars

\* deletePassword removed a credential, returned true, and two others are left
C17_Witness ==
    /\ call.op = "deletePassword"
    /\ call.found
    /\ Len(credentials) >= 2
    /\ PasswordsOf(credentials, call.service, call.account) = {}

\* C18 as stated: after every setPassword and deletePassword the item of local
\* storage is the text of the list in memory.
C18_StoredAfterEveryCall ==
    call.op \in {"setPassword", "deletePassword"} =>
        /\ CREDENTIALS_OPENED_KEY \in DOMAIN localStorage
        /\ localStorage[CREDENTIALS_OPENED_KEY] = stringifyCredentials(credentials)

\* C18 (amended): after every setPassword, and every deletePassword that returned
\* true, the item of local storage is the text of the list in memory; a
\* deletePassword that returns false writes nothing, so the item may still be
\* missing, and then the list is empty.  At all times a new instance reads from
\* local storage the very list in memory: it answers getPassword, findPassword
\* and findCredentials the same.
C18_NewInstanceReadsTheList ==
    /\ (call.op = "setPassword" \/ (call.op = "deletePassword" /\ call.found)) =>
          CREDENTIALS_OPENED_KEY \in DOMAIN localStorage
    /\ CREDENTIALS_OPENED_KEY \in DOMAIN localStorage =>
          localStorage[CREDENTIALS_OPENED_KEY] = stringifyCredentials(credentials)
    /\ CREDENTIALS_OPENED_KEY \notin DOMAIN localStorage => credentials = <<>>
    /\ readCredentials = credentials
    /\ \A s \in Services :
          /\ doGetPassword(readCredentials, s, Undefined)
                = doGetPassword(credentials, s, Undefined)
          /\ findCredentials(readCredentials, s) = findCredentials(credentials, s)
          /\ \A a \in Accounts :
                doGetPassword(readCredentials, s, a) = doGetPassword(credentials, s, a)

\* A new instance has not read local storage yet, which holds two credentials of
\* one service with different passwords
C18_Witness ==
    /\ ~_credentials.defined
    /\ Len(readCredentials) >= 2
    /\ \E i \in DOMAIN readCredentials, k \in DOMAIN readCredentials :
          /\ readCredentials[i].service = readCredentials[k].service
          /\ readCredentials[i].password # readCredentials[k].password

----
\* The handlers of the file system provider that do nothing
Idle ==
    {"watch", "stat", "mkdir", "readdir", "delete", "rename"}

\* C19: a readFile with no writeFile since the latest one, whose content was a
\* text of the list l, returns a JSON text that parses to exactly l, the indented
\* text of l, whatever the product's list is; watch, stat, mkdir, readdir, delete
\* and rename leave the storage as it is.
C19_ReadsBackWhatWasWritten ==
    [][/\ (file'.op = "readFile" /\ file'.written.given) =>
             \A l \in DomainLists :
                file'.written.content \in TextsOf(l) =>
                   /\ Parses(file'.content)
                   /\ JSONparse(file'.content) = Array(l)
                   /\ file'.content = stringifyIndented(Array(l))
       /\ file'.op \in Idle => storage' = storage /\ file'.written = file.written]_vars

\* The empty list was written, with a comment, and read back as the empty list
\* although the product defines a list
C19_Witness ==
    /\ file.op = "readFile"
    /\ file.written.given
    /\ file.written.content \in TextsOf(<<>>)
    /\ file.written.content # stringify(Array(<<>>))
    /\ product.defined
    /\ product.value # <<>>
    /\ JSONparse(file.content) = Array(<<>>)

\* C20: readFile leaves the storage as it is and returns a JSON text: of the
\* stored value if the key holds a non-empty text that parses as JSON, else (key
\* missing, empty text, or a text that does not parse) of the product's list, or
\* of the empty list if the product defines none.
C20_ReadFileSource ==
    [][file'.op = "readFile" =>
          /\ storage' = storage
          /\ product' = product
          /\ Parses(file'.content)
          /\ IF /\ STORAGE_KEY \in DOMAIN storage
                /\ storage[STORAGE_KEY] # <<>>
                /\ Parses(storage[STORAGE_KEY])
             THEN JSONparse(file'.content) = JSONparse(storage[STORAGE_KEY])
             ELSE JSONparse(file'.content) =
                     Array(IF product.defined THEN product.value ELSE <<>>)]_vars

\* The storage holds a text that is no JSON, and readFile returned the product's
\* list
C20_Witness ==
    /\ file.op = "readFile"
    /\ STORAGE_KEY \in DOMAIN storage
    /\ storage[STORAGE_KEY] # <<>>
    /\ ~Parses(storage[STORAGE_KEY])
    /\ product.defined
    /\ product.value # <<>>
    /\ JSONparse(file.content) = Array(product.value)

----
\* The lines of a text
RECURSIVE SplitLines(_)
SplitLines(text) ==
    IF \A i \in DOMAIN text : text[i] # "\n" THEN <<text>>
    ELSE LET i == CHOOSE k \in DOMAIN text :
                     text[k] = "\n" /\ \A m \in 1..(k - 1) : text[m] # "\n"
         IN <<SubSeq(text, 1, i - 1)>> \o SplitLines(SubSeq(text, i + 1, Len(text)))

\* C21: the message for n resources has 3 + min(n, 10) + (1 if n > 10) lines: the
\* start line, an empty line, the basenames of the first min(n, 10) resources in
\* their order, for n > 10 one line reporting n - 10 files not shown (in the
\* singular for one file), and an empty line.
C21_ConfirmMessageLines ==
    message.given =>
        LET lines == SplitLines(message.text)
            n == Len(resourcesToConfirm)
            shown == IF n < 10 THEN n ELSE 10
        IN /\ Len(lines) = 3 + shown + (IF n > 10 THEN 1 ELSE 0)
           /\ lines[1] = message.start
           /\ lines[2] = <<>>
           /\ \A i \in 1..shown :
                 lines[2 + i] = <<resourcesToConfirm[i][Len(resourcesToConfirm[i])]>>
           /\ n = 11 => lines[3 + shown] = <<"...1 additional file not shown">>
           /\ n > 11 => lines[3 + shown] =
                           <<"...", ToString(n - 10), " additional files not shown">>
           /\ lines[Len(lines)] = <<>>

\* A message was built for eleven resources: one file is not shown
C21_Witness ==
    /\ message.given
    /\ Len(resourcesToConfirm) = MAX_CONFIRM_FILES + 1
    /\ message.start # <<>>

----
\* C22: the listener of a 'scroll' event on a node adds the node's scrollTop to
\* the layout's scrollTop and leaves the node's scrollTop at 0, so their sum is
\* as before; it does the same with scrollLeft for the view DOM node and leaves
\* scrollLeft alone, in the node and in the layout, for the other three nodes;
\* no other node changes, and with no offset to correct the layout's scroll
\* position stays as it is.
C22_ScrollCorrection ==
    [][handled'.count = handled.count + 1 =>
          LET node == handled'.node
          IN /\ node \in DomNodes
             /\ domNodes'[node].scrollTop = 0
             /\ scrollPosition'.scrollTop =
                   scrollPosition.scrollTop + domNodes[node].scrollTop
             /\ IF node = "viewDomNode"
                THEN /\ domNodes'[node].scrollLeft = 0
                     /\ scrollPosition'.scrollLeft =
                           scrollPosition.scrollLeft + domNodes[node].scrollLeft
                ELSE /\ domNodes'[node].scrollLeft = domNodes[node].scrollLeft
                     /\ scrollPosition'.scrollLeft = scrollPosition.scrollLeft
             /\ \A other \in DomNodes \ {node} : domNodes'[other] = domNodes[other]
             /\ (domNodes'[node] = domNodes[node]) => scrollPosition' = scrollPosition]_vars

\* The lines content was scrolled down and sideways: the layout took over its
\* scrollTop, its scrollLeft is as the browser left it
C22_Witness ==
    /\ handled.node = "linesContent"
    /\ domNodes["linesContent"].scrollTop = 0
    /\ domNodes["linesContent"].scrollLeft # 0
    /\ scrollPosition.scrollTop > 0
    /\ scrollPosition.scrollLeft > 0


----
\* C23: without a callback provider, create(options) returns 'unsupported://',
\* asks no provider for a URI and no callback is ever opened; with one, create
\* returns what provider.create(options) returns and every event fired on
\* provider.onCallback before the service is disposed leads to exactly one
\* open() call with the revived URI, and none after.
C23_ProviderOrUnsupported ==
    [][/\ serviceCreates' # serviceCreates =>
            IF provider
            THEN /\ Len(created') = Len(created) + 1
                 /\ serviceReturned' = created'[Len(created')].uri
                 /\ \E o \in PollOptions \cup {NoOptions} :
                        created'[Len(created')] =
                            [options |-> o, uri |-> providerCreate(o, Len(created'))]
            ELSE /\ created' = created
                 /\ serviceReturned' =
                        [scheme |-> "unsupported", authority |-> "", path |-> "",
                         query |-> <<>>]
       /\ callbacks' # callbacks =>
            IF provider /\ subscribed
            THEN opened' = Append(opened, revive(callbacks'[Len(callbacks')]))
            ELSE opened' = opened
       /\ callbacks' = callbacks => opened' = opened
       /\ ~provider' => opened' = <<>> /\ created' = <<>> /\ ~subscribed'
      ]_vars

\* A service with a provider has created a URI, opened one callback and, once
\* disposed, not opened the next
C23_Witness ==
    /\ provider
    /\ ~subscribed
    /\ serviceCreates > 0
    /\ Len(callbacks) = 2
    /\ Len(opened) = 1
    /\ opened[1] = revive(callbacks[1])


----
\* C24: a missing, unparseable or non-array item under 'credentials.provider' is
\* an empty credential list: while it is there, getPassword and findPassword
\* return null, findCredentials returns the empty list and deletePassword finds
\* nothing; local storage changes only in a setPassword and in a deletePassword
\* that finds a match.
C24_UnusableStorageIsEmptyList ==
    /\ [](localStorage \in UnusableStorages =>
            /\ credentials = <<>>
            /\ call.op \in {"getPassword", "findPassword"} => call.result = Null
            /\ call.op = "findCredentials" => call.list = <<>>
            /\ call.op = "deletePassword" => ~call.found
            /\ call.op # "setPassword")
    /\ [][/\ localStorage' # localStorage =>
               \/ call'.op = "setPassword"
               \/ call'.op = "deletePassword" /\ call'.found
          /\ localStorage \in UnusableStorages /\ call'.op # "new" =>
               _credentials' = Read(IF call'.op = "setPassword"
                                    THEN <<[service |-> call'.service,
                                            account |-> call'.account,
                                            password |-> call'.password]>>
                                    ELSE <<>>)
         ]_vars

\* Over a text JSON.parse throws on, left as it was, the provider has read the
\* empty list and a call has found nothing in it
C24_Witness ==
    /\ localStorage = [k \in {CREDENTIALS_OPENED_KEY} |-> <<Punct("[")>>]
    /\ _credentials = Read(<<>>)
    /\ call.op = "getPassword"
    /\ call.result = Null

====
